---- MODULE Spec2Model ----
(***************************************************************************)
(* TensHash (nf-dj/tenscoin): the Mode A matrix cascade, its static        *)
(* single-slot precomputation cache (the node's tens_hash) and the         *)
(* one-shot tens_hash of test_pow.                                         *)
(*                                                                         *)
(* Dimensions are scaled down (the source has IN_SIZE = 32, HIDDEN = 1024, *)
(* ROUNDS = 64); bytes keep their width (mod 256, int8 noise, int32        *)
(* accumulator).  ChaCha20 and SHA-256 are library code: they are          *)
(* represented by fixed deterministic byte functions of their inputs.      *)
(* Only malloc/calloc failures are modelled; a failing operator new ends   *)
(* the node through its new-handler.                                       *)
(***************************************************************************)
EXTENDS Integers, Sequences, FiniteSets, TLC

\* ------------------------------------------------------------------------
\* Dimensions (scaled) and bounds
\* ------------------------------------------------------------------------
IN_SIZE == 2

HiddenFactor == 2

HIDDEN == HiddenFactor * IN_SIZE

ROUNDS == 2

\* number of addresses malloc can hand out for each kind of object
MaxPtr == 2

\* number of calls a logging caller makes
MaxCalls == 3

\* number of calls two concurrent callers make in all
MaxConcCalls == 2

\* largest out_len a caller of parse_hex passes
MaxOutLen == 2

\* number of evaluations a caller runs on one Mode B context
MaxEvals == 2

NULL == 0

\* the dimensions in the source
SRC_IN_SIZE == 32

SRC_HIDDEN == 1024

SRC_ROUNDS == 64
\* bytes of a SHA-256 digest
SRC_DIGEST_SIZE == 32

\* largest and smallest value of an int32_t
INT32_MAX == 2147483647

INT32_MIN == -INT32_MAX - 1

Byte == 0 .. 255

\* an unwritten caller output buffer / unwritten noise cell
UNWRITTEN == -1000

Vec(n, v) == [i \in 0 .. n - 1 |-> v]

Unit(n, k) == [i \in 0 .. n - 1 |-> IF i = k THEN 1 ELSE 0]

\* the seeds callers present: they differ in the first or in the last byte only
Seeds == {Vec(IN_SIZE, 0), Unit(IN_SIZE, 0), Unit(IN_SIZE, IN_SIZE - 1)}

Inputs == {[i \in 0 .. IN_SIZE - 1 |-> 3 + i], [i \in 0 .. IN_SIZE - 1 |-> 200 - 7 * i]}

\* ------------------------------------------------------------------------
\* Arithmetic
\* ------------------------------------------------------------------------
\* the int32_t accumulator: with these dimensions |sum| stays far below the
\* int32 range (an evaluation that left it would be reported as an overflow)
\* a reduction that saturates instead of wrapping
mod256_saturate(x) == IF x > 255 THEN 255 ELSE IF x < 0 THEN 0 ELSE x

\* (uint8_t)x & 0xFF of an int32
mod256(x) == x % 256

\* a byte stored into an int8_t
ToInt8(b) == IF b >= 128 THEN b - 256 ELSE b

RECURSIVE DotAcc(_, _, _, _)
\* the inner loop of matrix_multiply: sum += (int32_t)A[i][j] * in[j]
DotAcc(row, in, cols, j) ==
    IF j = cols THEN 0
    ELSE row[j] * in[j] + DotAcc(row, in, cols, j + 1)

\* out[i] = mod256(sum + e[i]); e is the noise buffer, eoff the slice offset
matrix_multiply(A, in, e, eoff, rows, cols) ==
    [i \in 0 .. rows - 1 |->
        mod256(DotAcc(A[i], in, cols, 0) + e[eoff + i])]

\* ------------------------------------------------------------------------
\* Library primitives
\* ------------------------------------------------------------------------
RECURSIVE KeyMix(_, _)
KeyMix(key, i) ==
    IF i = IN_SIZE THEN 1
    ELSE (key[i] * (2 * i + 3) + 5 * KeyMix(key, i + 1)) % 251

\* ChaCha20 keystream byte pos under key, zero nonce, block counter 0
KeystreamByte(key, pos) ==
    (KeyMix(key, 0) * (pos + 1) * 7 + pos * pos * 13 + KeyMix(key, 0) * 29 + 3) % 256

Keystream(key, n) == [p \in 0 .. n - 1 |-> KeystreamByte(key, p)]

\* SHA-256 of the input; the digest has OUTPUT_SIZE = IN_SIZE bytes
OUTPUT_SIZE == IN_SIZE

Sha256(input) ==
    [k \in 0 .. OUTPUT_SIZE - 1 |->
        (KeyMix(input, 0) * (k + 5) * 11 + input[k % IN_SIZE] * 3 + 97 * k + 41) % 256]

\* ------------------------------------------------------------------------
\* Matrix generation
\* ------------------------------------------------------------------------
total_size == (HIDDEN * IN_SIZE) + (ROUNDS * HIDDEN * HIDDEN) + (IN_SIZE * HIDDEN)

\* a sequence of rows as a 0-based matrix
ToMat(rows) == [i \in 0 .. Len(rows) - 1 |-> rows[i + 1]]

RECURSIVE CopyRows(_, _, _, _, _)
\* for (i < nrows) { memcpy(row[i], curr_pos, ncols); curr_pos += ncols; }
CopyRows(data, curr_pos, nrows, ncols, acc) ==
    IF Len(acc) = nrows THEN [rows |-> ToMat(acc), pos |-> curr_pos]
    ELSE CopyRows(data, curr_pos + ncols, nrows, ncols,
                  Append(acc, [j \in 0 .. ncols - 1 |-> data[curr_pos + j]]))

RECURSIVE CopyMiddle(_, _, _)
\* the loop over r of generate_all_matrices
CopyMiddle(data, curr_pos, acc) ==
    IF Len(acc) = ROUNDS THEN [mats |-> ToMat(acc), pos |-> curr_pos]
    ELSE LET m == CopyRows(data, curr_pos, HIDDEN, HIDDEN, <<>>)
         IN  CopyMiddle(data, m.pos, Append(acc, m.rows))

\* generate_all_matrices of the cached variant once all_data is allocated:
\* one keystream of total_size bytes copied row by row
FillPerRowFrom(data) ==
    LET e    == CopyRows(data, 0, HIDDEN, IN_SIZE, <<>>)
        m    == CopyMiddle(data, e.pos, <<>>)
        c    == CopyRows(data, m.pos, IN_SIZE, HIDDEN, <<>>)
    IN  [expand_mat |-> e.rows, middle_mats |-> m.mats, compress_mat |-> c.rows]

FillPerRow(seed) == FillPerRowFrom(Keystream(seed, total_size))

\* a block of n bytes copied from data at pos: memcpy(block, pos, n)
Block(data, pos, n) == [k \in 0 .. n - 1 |-> data[pos + k]]

\* row i of a contiguous block: row[i] = row[0] + i * ncols
RowsOfBlock(block, nrows, ncols) ==
    [i \in 0 .. nrows - 1 |-> [j \in 0 .. ncols - 1 |-> block[i * ncols + j]]]

\* generate_matrices of the one-shot variant: one memcpy per stage
FillBlocksFrom(data) ==
    LET pos1 == HIDDEN * IN_SIZE
        pos2 == pos1 + ROUNDS * HIDDEN * HIDDEN
    IN  [expand_mat   |-> RowsOfBlock(Block(data, 0, HIDDEN * IN_SIZE), HIDDEN, IN_SIZE),
         middle_mats  |-> [r \in 0 .. ROUNDS - 1 |->
                              RowsOfBlock(Block(data, pos1 + r * HIDDEN * HIDDEN,
                                                HIDDEN * HIDDEN), HIDDEN, HIDDEN)],
         compress_mat |-> RowsOfBlock(Block(data, pos2, IN_SIZE * HIDDEN), IN_SIZE, HIDDEN)]

FillBlocks(seed) == FillBlocksFrom(Keystream(seed, total_size))

\* rows that hold zero bytes (fresh pages from the allocator)
ZeroMats ==
    [expand_mat   |-> [i \in 0 .. HIDDEN - 1 |-> Vec(IN_SIZE, 0)],
     middle_mats  |-> [r \in 0 .. ROUNDS - 1 |-> [i \in 0 .. HIDDEN - 1 |-> Vec(HIDDEN, 0)]],
     compress_mat |-> [i \in 0 .. IN_SIZE - 1 |-> Vec(HIDDEN, 0)]]

\* ------------------------------------------------------------------------
\* Noise and the cascade as a function
\* ------------------------------------------------------------------------
total_noise_size == HIDDEN + (ROUNDS * HIDDEN) + IN_SIZE

\* a noise buffer whose tiling starts one byte later in every HIDDEN bytes
generate_all_noise_shifted(input) ==
    LET digest == Sha256(input)
    IN  [i \in 0 .. total_noise_size - 1 |->
            ToInt8(digest[(i + i \div HIDDEN) % OUTPUT_SIZE])]

\* generate_all_noise: noise_buffer[i] = digest[i % OUTPUT_SIZE], stored as int8
generate_all_noise(input) ==
    LET digest == Sha256(input)
    IN  [i \in 0 .. total_noise_size - 1 |-> ToInt8(digest[i % OUTPUT_SIZE])]

RECURSIVE MiddleRounds(_, _, _, _)
MiddleRounds(mats, noise, st, round) ==
    IF round = ROUNDS THEN st
    ELSE MiddleRounds(mats, noise,
                      matrix_multiply(mats.middle_mats[round], st, noise,
                                      HIDDEN + round * HIDDEN, HIDDEN, HIDDEN),
                      round + 1)

\* tens_hash_precomputed of the one-shot variant on fresh buffers
tens_hash_precomputed(input, mats) ==
    LET noise == generate_all_noise(input)
        st0   == matrix_multiply(mats.expand_mat, input, noise, 0, HIDDEN, IN_SIZE)
        stR   == MiddleRounds(mats, noise, st0, 0)
    IN  matrix_multiply(mats.compress_mat, stR, noise,
                        HIDDEN + ROUNDS * HIDDEN, IN_SIZE, HIDDEN)

\* ------------------------------------------------------------------------
\* Heap objects
\* ------------------------------------------------------------------------
Ptrs == 1 .. MaxPtr

\* a MatrixSet address that is not allocated
FreedMatrices == [live |-> FALSE, written |-> FALSE, mats |-> ZeroMats]

\* a HashBuffers address that is not allocated
FreedBuffers ==
    [live |-> FALSE, state |-> 1, next_state |-> 2,
     buf |-> <<Vec(HIDDEN, 0), Vec(HIDDEN, 0)>>, noise |-> Vec(total_noise_size, UNWRITTEN)]

FreeAddrs(h) == {p \in Ptrs : ~h[p].live}

\* malloc hands out the lowest free address
Malloc(h) == CHOOSE p \in FreeAddrs(h) : \A q \in FreeAddrs(h) : p <= q

LiveAddrs(h) == {p \in Ptrs : h[p].live}

\* number of malloc calls of precompute_matrices before generate_all_matrices
NAllocMatrices == 1 + 1 + HIDDEN + ROUNDS * (1 + HIDDEN) + 1 + IN_SIZE

\* generate_all_matrices(matrices, seed): all_ok is whether malloc(total_size)
\* succeeded; when it did not the function returns and the rows stay as
\* malloc left them (old)
generate_all_matrices(old, seed, all_ok) ==
    IF all_ok THEN [live |-> TRUE, written |-> TRUE, mats |-> FillPerRow(seed)]
    ELSE [live |-> TRUE, written |-> FALSE, mats |-> old]

\* precompute_matrices(seed): fail is the index of the first malloc that
\* returns NULL (0: none; NAllocMatrices + 1: the all_data buffer of
\* generate_all_matrices); every failure path before generate_all_matrices
\* frees what was allocated and returns nullptr
precompute_matrices(seed, fail, old) ==
    IF fail \in 1 .. NAllocMatrices THEN [ok |-> FALSE, obj |-> FreedMatrices]
    ELSE [ok |-> TRUE, obj |-> generate_all_matrices(old, seed, fail = 0)]

\* init_hash_buffers() that points state and next_state at one buffer
init_hash_buffers_one_buffer(fail) ==
    IF fail # 0 THEN [ok |-> FALSE, obj |-> FreedBuffers]
    ELSE [ok |-> TRUE,
          obj |-> [live |-> TRUE, state |-> 1, next_state |-> 1,
                   buf |-> <<Vec(HIDDEN, 0), Vec(HIDDEN, 0)>>,
                   noise |-> Vec(total_noise_size, UNWRITTEN)]]

\* init_hash_buffers(): fail in 1..4 is the malloc/calloc that returns NULL
\* (struct, state, next_state, noise); state and next_state are calloc'ed
init_hash_buffers(fail) ==
    IF fail # 0 THEN [ok |-> FALSE, obj |-> FreedBuffers]
    ELSE [ok |-> TRUE,
          obj |-> [live |-> TRUE, state |-> 1, next_state |-> 2,
                   buf |-> <<Vec(HIDDEN, 0), Vec(HIDDEN, 0)>>,
                   noise |-> Vec(total_noise_size, UNWRITTEN)]]

\* free_matrices that releases nothing
free_matrices_leak(h, p) == h

\* free_matrices(matrices) on the heap h
free_matrices(h, p) == IF p = NULL THEN h ELSE [h EXCEPT ![p] = FreedMatrices]

\* free_hash_buffers(buffers) on the heap h
free_hash_buffers(h, p) == IF p = NULL THEN h ELSE [h EXCEPT ![p] = FreedBuffers]

RECURSIVE memcmp(_, _, _, _)
\* memcmp(a, b, n): 0 when the first n bytes agree, else the first difference
memcmp(a, b, n, i) ==
    IF i = n THEN 0
    ELSE IF a[i] # b[i] THEN a[i] - b[i]
    ELSE memcmp(a, b, n, i + 1)

\* the comparison without its "== 0"
SeedMatches_nonzero(initialized, cached, seed) ==
    IF initialized THEN memcmp(cached, seed, IN_SIZE, 0) # 0 ELSE FALSE

\* bool seedMatches = false; if (cacheInitialized) seedMatches = (memcmp(...) == 0)
SeedMatches(initialized, cached, seed) ==
    IF initialized THEN memcmp(cached, seed, IN_SIZE, 0) = 0 ELSE FALSE

\* ------------------------------------------------------------------------
\* One-shot tens_hash (test_pow)
\* ------------------------------------------------------------------------
\* malloc calls of the one-shot precompute_matrices (one block per matrix)
NAllocOnce == 1 + 2 + ROUNDS * 2 + 2

\* tens_hash of test_pow: precompute_matrices, init_hash_buffers,
\* tens_hash_precomputed, free both.  fail is the index of the first malloc
\* that returns NULL: 1..NAllocOnce in precompute_matrices (NULL, then
\* exit(1)), NAllocOnce+1 the data buffer of generate_matrices (exit(1)),
\* the next four in init_hash_buffers (NULL, then exit(1))
tens_hash_once(input, seed, fail) ==
    IF fail = 0
    THEN [status |-> "ok", out |-> tens_hash_precomputed(input, FillBlocks(seed))]
    ELSE [status |-> "exit", out |-> Vec(IN_SIZE, UNWRITTEN)]

\* ------------------------------------------------------------------------
\* State
\* ------------------------------------------------------------------------
VARIABLES
    cacheInitialized,  \* static bool cacheInitialized
    cachedSeed,        \* static uint8_t cachedSeed[IN_SIZE]
    cachedMatrices,    \* static PrecomputedMatrices* (NULL or an address)
    cachedBuffers,     \* static HashBuffers* (NULL or an address)
    mheap,             \* the MatrixSet at each address
    bheap,             \* the HashBuffers at each address
    pc,                \* where each caller is inside tens_hash
    arg,               \* each caller's seed and input
    output,            \* each caller's output buffer
    seedMatches,       \* the local bool seedMatches of each call
    mloc,              \* matrices argument of tens_hash_precomputed
    bloc,              \* buffers argument of tens_hash_precomputed
    round,             \* loop counter of tens_hash_precomputed
    locking,           \* whether callers wrap tens_hash in one external lock
    lock,              \* holder of that lock (0: free)
    hist,              \* the last completed cached calls
    eff,               \* frees, allocation calls and generations of the current call
    snap,              \* the slot as it was when the current call began
    once,              \* the last one-shot run
    ub,                \* a caller used an object another caller freed
    layers,            \* the layers the current evaluation applied so far
    variant,           \* which tens_hash the build links: Mode A or Mode B
    ph,                \* a call of parse_hex
    mm,                \* a call of matrix_multiply on one row
    ctx,               \* the Mode B TensHashContext and its caller
    ctor               \* a construction call and the blocks it allocated

vars == <<cacheInitialized, cachedSeed, cachedMatrices, cachedBuffers, mheap, bheap,
          pc, arg, output, seedMatches, mloc, bloc, round, locking, lock, hist, eff,
          snap, once, ub, layers, variant, ph, mm, ctx, ctor>>

\* the state of the programs other than the cached Mode A tens_hash
others == <<variant, ph, mm, ctx, ctor>>

\* the state of the cached Mode A tens_hash and its callers
cacheVars == <<cacheInitialized, cachedSeed, cachedMatrices, cachedBuffers, mheap,
               bheap, pc, arg, output, seedMatches, mloc, bloc, round, locking, lock,
               hist, eff, snap, once, ub, layers>>

statics == <<cacheInitialized, cachedSeed, cachedMatrices, cachedBuffers>>

Threads == {1, 2}

NoArg == [seed |-> Vec(IN_SIZE, 0), input |-> Vec(IN_SIZE, 0)]

NoEff == [frees |-> 0, allocs |-> 0, gens |-> 0, fails |-> 0]

NoSnap == [hit |-> FALSE, cm |-> NULL, cb |-> NULL, cseed |-> Vec(IN_SIZE, 0),
           mh |-> [p \in Ptrs |-> FreedMatrices]]

NoOnce == [seed |-> Vec(IN_SIZE, 0), input |-> Vec(IN_SIZE, 0), status |-> "none",
           out |-> Vec(IN_SIZE, UNWRITTEN)]

\* no call of parse_hex is in progress
NoPh == [pc |-> "idle", hex |-> <<>>, out_len |-> 0, out |-> <<>>, i |-> 0, ret |-> 0]

\* no call of matrix_multiply is in progress
NoMm == [pc |-> "idle", row |-> <<>>, in |-> <<>>, e |-> 0, cols |-> 0, j |-> 0,
         sum |-> 0, out |-> UNWRITTEN]

\* no Mode B context exists
NoCtx ==
    [pc |-> "idle", seed |-> Vec(IN_SIZE, 0), input |-> Vec(IN_SIZE, 0),
     output |-> Vec(IN_SIZE, UNWRITTEN), live |-> FALSE, state |-> 1, next_state |-> 2,
     buf |-> <<>>, expansion_mat |-> <<>>, hidden_mats |-> <<>>,
     compression_mat |-> <<>>, r |-> 0, evals |-> 0, nonces |-> <<>>, layers |-> <<>>,
     freed |-> <<>>]

\* no construction call is in progress
NoCtor ==
    [pc |-> "idle", path |-> "none", n |-> 0, live |-> {}, nulls |-> {}, first |-> 0,
     frees |-> <<>>, ret |-> "none", written |-> FALSE]

InitCommon ==
    /\ layers = [t \in Threads |-> <<>>]
    /\ ph = NoPh
    /\ mm = NoMm
    /\ ctx = NoCtx
    /\ ctor = NoCtor
    /\ cacheInitialized = FALSE
    /\ cachedSeed = Vec(IN_SIZE, 0)
    /\ cachedMatrices = NULL
    /\ cachedBuffers = NULL
    /\ mheap = [p \in Ptrs |-> FreedMatrices]
    /\ bheap = [p \in Ptrs |-> FreedBuffers]
    /\ pc = [t \in Threads |-> "idle"]
    /\ arg = [t \in Threads |-> NoArg]
    /\ output = [t \in Threads |-> Vec(IN_SIZE, UNWRITTEN)]
    /\ seedMatches = [t \in Threads |-> FALSE]
    /\ mloc = [t \in Threads |-> NULL]
    /\ bloc = [t \in Threads |-> NULL]
    /\ round = [t \in Threads |-> 0]
    /\ lock = 0
    /\ hist = <<>>
    /\ eff = [t \in Threads |-> NoEff]
    /\ snap = [t \in Threads |-> NoSnap]
    /\ once = NoOnce
    /\ ub = FALSE

Init == InitCommon /\ locking = FALSE /\ variant = "modeA"

\* ------------------------------------------------------------------------
\* The cached tens_hash, statement by statement
\* ------------------------------------------------------------------------
\* a caller enters tens_hash(input, seed, output); under external locking it
\* takes the lock first
Call(t, s, x) ==
    /\ pc[t] = "idle"
    /\ locking => lock = 0
    /\ lock' = IF locking THEN t ELSE lock
    /\ pc' = [pc EXCEPT ![t] = "check"]
    /\ arg' = [arg EXCEPT ![t] = [seed |-> s, input |-> x]]
    /\ output' = [output EXCEPT ![t] = Vec(IN_SIZE, UNWRITTEN)]
    /\ eff' = [eff EXCEPT ![t] = NoEff]
    /\ snap' = [snap EXCEPT ![t] =
                   [hit |-> cacheInitialized /\ cachedSeed = s,
                    cm |-> cachedMatrices, cb |-> cachedBuffers,
                    cseed |-> cachedSeed, mh |-> mheap]]
    /\ UNCHANGED <<statics, mheap, bheap, seedMatches, mloc, bloc, round, locking,
                   hist, once, ub, layers, others>>

\* lines 269-275: compare the seeds, decide whether to rebuild
CheckSeed(t) ==
    /\ pc[t] = "check"
    /\ LET sm == SeedMatches(cacheInitialized, cachedSeed, arg[t].seed)
       IN  /\ seedMatches' = [seedMatches EXCEPT ![t] = sm]
           /\ pc' = [pc EXCEPT ![t] =
                        IF ~cacheInitialized \/ ~sm THEN "free_m" ELSE "guard"]
    /\ UNCHANGED <<statics, mheap, bheap, arg, output, mloc, bloc, round, locking,
                   lock, hist, eff, snap, once, ub, layers, others>>

\* lines 278-281
FreeOldMatrices(t) ==
    /\ pc[t] = "free_m"
    /\ mheap' = free_matrices(mheap, cachedMatrices)
    /\ cachedMatrices' = NULL
    /\ eff' = [eff EXCEPT ![t].frees = @ + (IF cachedMatrices # NULL THEN 1 ELSE 0)]
    /\ pc' = [pc EXCEPT ![t] = "free_b"]
    /\ UNCHANGED <<cacheInitialized, cachedSeed, cachedBuffers, bheap, arg, output,
                   seedMatches, mloc, bloc, round, locking, lock, hist, snap, once, ub, layers, others>>

\* lines 282-285
FreeOldBuffers(t) ==
    /\ pc[t] = "free_b"
    /\ bheap' = free_hash_buffers(bheap, cachedBuffers)
    /\ cachedBuffers' = NULL
    /\ eff' = [eff EXCEPT ![t].frees = @ + (IF cachedBuffers # NULL THEN 1 ELSE 0)]
    /\ pc' = [pc EXCEPT ![t] = "set_seed"]
    /\ UNCHANGED <<cacheInitialized, cachedSeed, cachedMatrices, mheap, arg, output,
                   seedMatches, mloc, bloc, round, locking, lock, hist, snap, once, ub, layers, others>>

\* lines 287-288
SetSeed(t) ==
    /\ pc[t] = "set_seed"
    /\ cachedSeed' = arg[t].seed
    /\ cacheInitialized' = TRUE
    /\ pc' = [pc EXCEPT ![t] = "precompute"]
    /\ UNCHANGED <<cachedMatrices, cachedBuffers, mheap, bheap, arg, output,
                   seedMatches, mloc, bloc, round, locking, lock, hist, eff, snap,
                   once, ub, layers, others>>

\* what rows that malloc returned can hold before anything is copied into
\* them: zero pages, or the coefficients of a MatrixSet this call freed
Stale(t) == {ZeroMats} \cup {snap[t].mh[q].mats : q \in Ptrs}

\* line 290: cachedMatrices = precompute_matrices(seed); an exhausted address
\* space makes the first malloc fail
Precompute(t) ==
    /\ pc[t] = "precompute"
    /\ \E fail \in 0 .. NAllocMatrices + 1, old \in Stale(t) :
          LET f == IF FreeAddrs(mheap) = {} THEN 1 ELSE fail
              r == precompute_matrices(arg[t].seed, f, old)
          IN  /\ (f # NAllocMatrices + 1) => old = ZeroMats
              /\ IF r.ok
                 THEN /\ mheap' = [mheap EXCEPT ![Malloc(mheap)] = r.obj]
                      /\ cachedMatrices' = Malloc(mheap)
                      /\ eff' = [eff EXCEPT ![t].allocs = @ + 1, ![t].gens = @ + 1,
                                            ![t].fails = @ + (IF f # 0 THEN 1 ELSE 0)]
                 ELSE /\ cachedMatrices' = NULL
                      /\ mheap' = mheap
                      /\ eff' = [eff EXCEPT ![t].allocs = @ + 1, ![t].fails = @ + 1]
    /\ pc' = [pc EXCEPT ![t] = "init_buffers"]
    /\ UNCHANGED <<cacheInitialized, cachedSeed, cachedBuffers, bheap, arg, output,
                   seedMatches, mloc, bloc, round, locking, lock, hist, snap, once, ub, layers, others>>

\* line 291: cachedBuffers = init_hash_buffers()
InitBuffers(t) ==
    /\ pc[t] = "init_buffers"
    /\ \E fail \in 0 .. 4 :
          LET f == IF FreeAddrs(bheap) = {} THEN 1 ELSE fail
              r == init_hash_buffers(f)
          IN  IF r.ok
              THEN /\ bheap' = [bheap EXCEPT ![Malloc(bheap)] = r.obj]
                   /\ cachedBuffers' = Malloc(bheap)
                   /\ eff' = [eff EXCEPT ![t].allocs = @ + 1]
              ELSE /\ cachedBuffers' = NULL
                   /\ bheap' = bheap
                   /\ eff' = [eff EXCEPT ![t].allocs = @ + 1, ![t].fails = @ + 1]
    /\ pc' = [pc EXCEPT ![t] = "guard"]
    /\ UNCHANGED <<cacheInitialized, cachedSeed, cachedMatrices, mheap, arg, output,
                   seedMatches, mloc, bloc, round, locking, lock, hist, snap, once, ub, layers, others>>

\* lines 295-301: return when either pointer is null, else call
\* tens_hash_precomputed(input, cachedMatrices, cachedBuffers, output)
Guard(t) ==
    /\ pc[t] = "guard"
    /\ IF cachedMatrices = NULL \/ cachedBuffers = NULL
       THEN /\ pc' = [pc EXCEPT ![t] = "return"]
            /\ UNCHANGED <<mloc, bloc>>
       ELSE /\ pc' = [pc EXCEPT ![t] = "noise"]
            /\ mloc' = [mloc EXCEPT ![t] = cachedMatrices]
            /\ bloc' = [bloc EXCEPT ![t] = cachedBuffers]
    /\ UNCHANGED <<statics, mheap, bheap, arg, output, seedMatches, round, locking,
                   lock, hist, eff, snap, once, ub, layers, others>>

\* both objects handed to tens_hash_precomputed are still allocated
Usable(t) ==
    /\ mloc[t] # NULL /\ mheap[mloc[t]].live
    /\ bloc[t] # NULL /\ bheap[bloc[t]].live

Evaluating(t) == pc[t] \in {"noise", "expand", "round", "compress"}

\* tens_hash_precomputed line 234
Noise(t) ==
    /\ pc[t] = "noise" /\ Usable(t)
    /\ bheap' = [bheap EXCEPT ![bloc[t]].noise = generate_all_noise(arg[t].input)]
    /\ pc' = [pc EXCEPT ![t] = "expand"]
    /\ UNCHANGED <<statics, mheap, arg, output, seedMatches, mloc, bloc, round,
                   locking, lock, hist, eff, snap, once, ub, layers, others>>

\* line 240
Expand(t) ==
    /\ pc[t] = "expand" /\ Usable(t)
    /\ LET b == bheap[bloc[t]]
           m == mheap[mloc[t]].mats
       IN  bheap' = [bheap EXCEPT ![bloc[t]].buf[b.state] =
                        matrix_multiply(m.expand_mat, arg[t].input, b.noise, 0,
                                        HIDDEN, IN_SIZE)]
    /\ layers' = [layers EXCEPT ![t] =
                     Append(@, [stage |-> "expand", matrix |-> 0, noise |-> 0,
                                src |-> 0, dst |-> bheap[bloc[t]].state,
                                in |-> arg[t].input,
                                out |-> bheap'[bloc[t]].buf[bheap[bloc[t]].state]])]
    /\ round' = [round EXCEPT ![t] = 0]
    /\ pc' = [pc EXCEPT ![t] = "round"]
    /\ UNCHANGED <<statics, mheap, arg, output, seedMatches, mloc, bloc, locking,
                   lock, hist, eff, snap, once, ub, others>>

\* lines 242-249: one middle round and the pointer swap
Round(t) ==
    /\ pc[t] = "round" /\ Usable(t)
    /\ LET b == bheap[bloc[t]]
           m == mheap[mloc[t]].mats
           r == round[t]
       IN  bheap' = [bheap EXCEPT
                        ![bloc[t]].buf[b.next_state] =
                            matrix_multiply(m.middle_mats[r], b.buf[b.state], b.noise,
                                            HIDDEN + r * HIDDEN, HIDDEN, HIDDEN),
                        ![bloc[t]].state = b.next_state,
                        ![bloc[t]].next_state = b.state]
    /\ layers' = [layers EXCEPT ![t] =
                     Append(@, [stage |-> "middle", matrix |-> round[t],
                                noise |-> HIDDEN + round[t] * HIDDEN,
                                src |-> bheap[bloc[t]].state,
                                dst |-> bheap[bloc[t]].next_state,
                                in |-> bheap[bloc[t]].buf[bheap[bloc[t]].state],
                                out |-> bheap'[bloc[t]].buf[bheap'[bloc[t]].state]])]
    /\ round' = [round EXCEPT ![t] = @ + 1]
    /\ pc' = [pc EXCEPT ![t] = IF round[t] + 1 < ROUNDS THEN "round" ELSE "compress"]
    /\ UNCHANGED <<statics, mheap, arg, output, seedMatches, mloc, bloc, locking,
                   lock, hist, eff, snap, once, ub, others>>

\* line 251
Compress(t) ==
    /\ pc[t] = "compress" /\ Usable(t)
    /\ LET b == bheap[bloc[t]]
           m == mheap[mloc[t]].mats
       IN  output' = [output EXCEPT ![t] =
                         matrix_multiply(m.compress_mat, b.buf[b.state], b.noise,
                                         HIDDEN + ROUNDS * HIDDEN, IN_SIZE, HIDDEN)]
    /\ layers' = [layers EXCEPT ![t] =
                     Append(@, [stage |-> "compress", matrix |-> 0,
                                noise |-> HIDDEN + ROUNDS * HIDDEN,
                                src |-> bheap[bloc[t]].state, dst |-> 0,
                                in |-> bheap[bloc[t]].buf[bheap[bloc[t]].state],
                                out |-> output'[t]])]
    /\ pc' = [pc EXCEPT ![t] = "return"]
    /\ UNCHANGED <<statics, mheap, bheap, arg, seedMatches, mloc, bloc, round,
                   locking, lock, hist, eff, snap, once, ub, others>>

\* tens_hash_precomputed touches a MatrixSet or HashBuffers that another
\* caller freed: undefined behaviour; the call ends with whatever it wrote
UseAfterFree(t) ==
    /\ Evaluating(t) /\ ~Usable(t)
    /\ ub' = TRUE
    /\ \E o \in {output[t], Vec(IN_SIZE, 0)} : output' = [output EXCEPT ![t] = o]
    /\ pc' = [pc EXCEPT ![t] = "return"]
    /\ UNCHANGED <<statics, mheap, bheap, arg, seedMatches, mloc, bloc, round,
                   locking, lock, hist, eff, snap, once, layers, others>>

\* the caller's log of completed calls
Remember(h, e) == Append(h, e)

Leave(t) ==
    /\ pc[t] = "return"
    /\ pc' = [pc EXCEPT ![t] = "idle"]
    /\ lock' = IF locking THEN 0 ELSE lock
    /\ arg' = [arg EXCEPT ![t] = NoArg]
    /\ output' = [output EXCEPT ![t] = Vec(IN_SIZE, UNWRITTEN)]
    /\ seedMatches' = [seedMatches EXCEPT ![t] = FALSE]
    /\ mloc' = [mloc EXCEPT ![t] = NULL]
    /\ bloc' = [bloc EXCEPT ![t] = NULL]
    /\ round' = [round EXCEPT ![t] = 0]
    /\ eff' = [eff EXCEPT ![t] = NoEff]
    /\ snap' = [snap EXCEPT ![t] = NoSnap]
    /\ layers' = [layers EXCEPT ![t] = <<>>]
    /\ UNCHANGED <<statics, mheap, bheap, locking, ub, others>>

\* tens_hash returns (void)
Return(t) ==
    /\ Leave(t)
    /\ UNCHANGED <<hist, once>>

\* tens_hash returns to a caller who keeps a log of the calls made
ReturnLogged(t) ==
    /\ Leave(t)
    /\ hist' = Remember(hist, [seed |-> arg[t].seed, input |-> arg[t].input,
                               out |-> output[t]])
    /\ UNCHANGED once

\* a caller who logs its calls makes at most MaxCalls of them
CallLogged(t, s, x) ==
    /\ Len(hist) < MaxCalls
    /\ Call(t, s, x)

\* two concurrent callers make at most MaxConcCalls calls in all
CallConc(t, s, x) ==
    /\ Len(hist) + Cardinality({u \in Threads : pc[u] # "idle"}) < MaxConcCalls
    /\ Call(t, s, x)

\* a run of the one-shot program on the seed and input of the cached call
\* that is about to return
EvaluateOnce(t) ==
    /\ pc[t] = "return"
    /\ once.status = "none"
    /\ \E fail \in 0 .. NAllocOnce + 5 :
          LET r == tens_hash_once(arg[t].input, arg[t].seed, fail)
          IN  once' = [seed |-> arg[t].seed, input |-> arg[t].input,
                       status |-> r.status, out |-> r.out]
    /\ UNCHANGED <<statics, mheap, bheap, pc, arg, output, seedMatches, mloc, bloc,
                   round, locking, lock, hist, eff, snap, ub, layers, others>>

\* the cached call returns after the one-shot run was compared with it
ReturnCompared(t) ==
    /\ Leave(t)
    /\ once' = NoOnce
    /\ UNCHANGED hist

Next ==
    \/ \E s \in Seeds, x \in Inputs : Call(1, s, x)
    \/ CheckSeed(1)
    \/ FreeOldMatrices(1)
    \/ FreeOldBuffers(1)
    \/ SetSeed(1)
    \/ Precompute(1)
    \/ InitBuffers(1)
    \/ Guard(1)
    \/ Noise(1)
    \/ Expand(1)
    \/ Round(1)
    \/ Compress(1)
    \/ Return(1)

Spec == Init /\ [][Next]_vars

\* the steps of tens_hash between entry and return
Body(t) ==
    \/ CheckSeed(t)
    \/ FreeOldMatrices(t)
    \/ FreeOldBuffers(t)
    \/ SetSeed(t)
    \/ Precompute(t)
    \/ InitBuffers(t)
    \/ Guard(t)
    \/ Noise(t)
    \/ Expand(t)
    \/ Round(t)
    \/ Compress(t)

\* a sequential caller that logs every call
NextCalls ==
    \/ \E s \in Seeds, x \in Inputs : CallLogged(1, s, x)
    \/ Body(1)
    \/ ReturnLogged(1)

SpecCalls == Init /\ [][NextCalls]_vars

\* a sequential caller that runs the one-shot program beside each call
NextOnce ==
    \/ \E s \in Seeds, x \in Inputs : Call(1, s, x)
    \/ Body(1)
    \/ EvaluateOnce(1)
    \/ ReturnCompared(1)

SpecOnce == Init /\ [][NextOnce]_vars

\* two callers: thread 1 presents the zero seed, thread 2 another one
SeedOf(t) == IF t = 1 THEN Vec(IN_SIZE, 0) ELSE Unit(IN_SIZE, IN_SIZE - 1)

InputOf(t) == IF t = 1 THEN [i \in 0 .. IN_SIZE - 1 |-> 3 + i]
              ELSE [i \in 0 .. IN_SIZE - 1 |-> 200 - 7 * i]

InitConc == InitCommon /\ locking \in BOOLEAN /\ variant = "modeA"

NextConc ==
    \E t \in Threads :
        \/ CallConc(t, SeedOf(t), InputOf(t))
        \/ Body(t)
        \/ UseAfterFree(t)
        \/ ReturnLogged(t)

SpecConc == InitConc /\ [][NextConc]_vars

\* ------------------------------------------------------------------------
\* Properties of the sequential cache (Spec)
\* ------------------------------------------------------------------------
Unwritten(o) == o = Vec(IN_SIZE, UNWRITTEN)

\* C1: whenever tens_hash_precomputed runs for a call Evaluate(s, x), the
\* MatrixSet it reads was fully written from the keystream of exactly s.
C1_EvaluatesUnderOwnSeed ==
    Evaluating(1) =>
        /\ mheap[mloc[1]].live
        /\ mheap[mloc[1]].written
        /\ mheap[mloc[1]].mats = FillPerRow(arg[1].seed)

\* C2: at every point at most one MatrixSet and one HashBuffers are
\* allocated, both owned by the slot; the old entry is freed before
\* precompute_matrices and init_hash_buffers run for the new seed; matrices
\* written into the slot are those of the recorded seed.
C2_AtMostOneEntry ==
    /\ Cardinality(LiveAddrs(mheap)) <= 1
    /\ Cardinality(LiveAddrs(bheap)) <= 1
    /\ LiveAddrs(mheap) \subseteq {cachedMatrices}
    /\ LiveAddrs(bheap) \subseteq {cachedBuffers}
    /\ pc[1] = "precompute" => LiveAddrs(mheap) = {} /\ LiveAddrs(bheap) = {}
    /\ pc[1] = "init_buffers" => LiveAddrs(bheap) = {}
    /\ \A p \in LiveAddrs(mheap) :
          mheap[p].written => cacheInitialized /\ mheap[p].mats = FillPerRow(cachedSeed)

\* a call that changes seed has freed the old entry and not yet built the new
C2_Witness ==
    /\ pc[1] = "precompute"
    /\ snap[1].cm # NULL /\ snap[1].cb # NULL
    /\ snap[1].cseed # arg[1].seed
    /\ eff[1].frees = 2

\* C6: a call made while the slot records a seed byte-equal to the requested
\* one frees nothing, allocates nothing, generates nothing and leaves the
\* MatrixSet (address and coefficients), the HashBuffers address and the
\* recorded seed as they were.
C6_WarmCallFrame ==
    (pc[1] # "idle" /\ snap[1].hit) =>
        /\ eff[1] = NoEff
        /\ cacheInitialized
        /\ cachedSeed = snap[1].cseed
        /\ cachedMatrices = snap[1].cm
        /\ cachedBuffers = snap[1].cb
        /\ mheap = snap[1].mh

\* a warm call that evaluated and wrote the output
C6_Witness ==
    /\ pc[1] = "return"
    /\ snap[1].hit
    /\ ~Unwritten(output[1])
    /\ bheap[bloc[1]].noise = generate_all_noise(arg[1].input)

SlotEmpty == ~cacheInitialized /\ cachedMatrices = NULL /\ cachedBuffers = NULL

SlotPopulated ==
    /\ cacheInitialized
    /\ cachedMatrices # NULL /\ mheap[cachedMatrices].live
    /\ cachedBuffers # NULL /\ bheap[cachedBuffers].live

\* C7: between calls the slot is Empty or Populated(seed); (the claim's
\* Clear() would be the one transition back to Empty).
C7_OnlyEmptyOrPopulated == pc[1] = "idle" => SlotEmpty \/ SlotPopulated

\* C8: a MatrixSet that precompute_matrices returned (non-null) has all its
\* coefficients written from the keystream of the seed.
C8_NoPartialMatrixSet ==
    cachedMatrices # NULL =>
        /\ mheap[cachedMatrices].written
        /\ mheap[cachedMatrices].mats = FillPerRow(cachedSeed)

\* C9: tens_hash never returns with the output buffer unwritten (it has no
\* other way to report a failure: it returns void).
C9_FailureIsReported == pc[1] = "return" => ~Unwritten(output[1])

\* ------------------------------------------------------------------------
\* Properties of sequences of calls (SpecCalls)
\* ------------------------------------------------------------------------
\* C3: determinism: any two logged calls with the same seed and input
\* returned the same output, whatever the slot and the HashBuffers held.
C3_Deterministic ==
    \A i \in 1 .. Len(hist), j \in 1 .. Len(hist) :
        (hist[i].seed = hist[j].seed /\ hist[i].input = hist[j].input)
            => hist[i].out = hist[j].out

\* C4: cache transparency: in Evaluate(A, x); Evaluate(B, y); Evaluate(A, x)
\* with B # A the third call returns what the first returned.
C4_CacheTransparent ==
    \A i \in 1 .. Len(hist) :
        (/\ i + 2 <= Len(hist)
         /\ hist[i + 1].seed # hist[i].seed
         /\ hist[i + 2].seed = hist[i].seed
         /\ hist[i + 2].input = hist[i].input)
            => hist[i + 2].out = hist[i].out

\* ------------------------------------------------------------------------
\* One-shot against cached (SpecOnce)
\* ------------------------------------------------------------------------
\* C5: the one-shot tens_hash returns the bytes the cached tens_hash returns
\* for the same seed and input, in any cache state (and the block slicing
\* gives every coefficient the byte the per-row slicing gives it).
C5_OneShotEqualsCached ==
    /\ \A s \in Seeds : FillBlocks(s) = FillPerRow(s)
    /\ (pc[1] = "return" /\ once.status = "ok") => output[1] = once.out

\* ------------------------------------------------------------------------
\* Two concurrent callers (SpecConc)
\* ------------------------------------------------------------------------
\* the digest of a seed and an input
Digest(seed, input) == tens_hash_precomputed(input, FillPerRow(seed))

\* caller t evaluates with objects that are no longer (or not only) its own:
\* freed, replaced in the slot, recorded for another seed, or HashBuffers
\* another caller is evaluating on as well
Races(t) ==
    /\ Evaluating(t)
    /\ \/ ~Usable(t)
       \/ cachedMatrices # mloc[t]
       \/ cachedBuffers # bloc[t]
       \/ cachedSeed # arg[t].seed
       \/ \E u \in Threads \ {t} : Evaluating(u) /\ bloc[u] = bloc[t]

RaceState == ub \/ \E t \in Threads : Races(t)

\* C10: with every call wrapped in one external lock no call evaluates with
\* freed, replaced or shared objects, and each call returns the digest of its
\* own seed and input (without the lock such an interleaving is reachable).
C10_LockedCallsCorrect ==
    locking =>
        /\ ~RaceState
        /\ \A t \in Threads :
              pc[t] = "return" => output[t] = Digest(arg[t].seed, arg[t].input)

\* unsynchronized callers with different seeds: one evaluates with objects
\* the other freed or replaced
C10_UnlockedRace == ~locking /\ RaceState

\* under the lock no call evaluates with freed, replaced or shared objects
LockExcludesRaces == locking => ~RaceState

\* ------------------------------------------------------------------------
\* parse_hex (test_pow)
\* ------------------------------------------------------------------------
\* the characters callers put into hex strings: '0', 'A', 'f' and 'g'
HexChars == {48, 65, 102, 103}

\* strings of up to 2 * MaxOutLen + 1 characters
HexStrings == UNION {[1 .. l -> HexChars] : l \in 0 .. 2 * MaxOutLen + 1}

\* hexchar_to_int(c) on the character code c
hexchar_to_int(c) ==
    IF c >= 48 /\ c <= 57 THEN c - 48
    ELSE IF c >= 97 /\ c <= 102 THEN c - 97 + 10
    ELSE IF c >= 65 /\ c <= 70 THEN c - 65 + 10
    ELSE -1

\* parse_hex(hex, hex_len, out, out_len) is entered with an output buffer the
\* caller did not initialise; the length test of lines 303-304
ParseHexCall(hex, out_len) ==
    /\ ph.pc = "idle"
    /\ ph' = IF Len(hex) # out_len * 2
             THEN [pc |-> "done", hex |-> hex, out_len |-> out_len,
                   out |-> Vec(out_len, UNWRITTEN), i |-> 0, ret |-> -1]
             ELSE [pc |-> "loop", hex |-> hex, out_len |-> out_len,
                   out |-> Vec(out_len, UNWRITTEN), i |-> 0, ret |-> 0]
    /\ UNCHANGED <<cacheVars, variant, mm, ctx, ctor>>

\* one pass of the loop of lines 305-311 (hex[2 * i] is the 0-based index)
ParseHexStep ==
    /\ ph.pc = "loop"
    /\ IF ph.i < ph.out_len
       THEN LET hi == hexchar_to_int(ph.hex[2 * ph.i + 1])
                lo == hexchar_to_int(ph.hex[2 * ph.i + 2])
            IN  IF hi < 0 \/ lo < 0
                THEN ph' = [ph EXCEPT !.pc = "done", !.ret = -1]
                ELSE ph' = [ph EXCEPT !.out[ph.i] = hi * 16 + lo, !.i = @ + 1]
       ELSE ph' = [ph EXCEPT !.pc = "done", !.ret = 0]
    /\ UNCHANGED <<cacheVars, variant, mm, ctx, ctor>>

\* the caller has looked at the result
ParseHexReturn ==
    /\ ph.pc = "done"
    /\ ph' = NoPh
    /\ UNCHANGED <<cacheVars, variant, mm, ctx, ctor>>

NextHex ==
    \/ \E hex \in HexStrings, out_len \in 1 .. MaxOutLen : ParseHexCall(hex, out_len)
    \/ ParseHexStep
    \/ ParseHexReturn

SpecHex == Init /\ [][NextHex]_vars

\* every character of the string is a hex digit
AllHexDigits(hex) == \A k \in 1 .. Len(hex) : hexchar_to_int(hex[k]) >= 0

\* C11: parse_hex returns 0 only for a string of 2 * out_len hex digits, and
\* in every error case it returns -1 and leaves the output buffer as it was
\* before the call.
C11_ParseHexStrict ==
    ph.pc = "done" =>
        /\ ph.ret \in {0, -1}
        /\ ph.ret = 0 <=> (Len(ph.hex) = 2 * ph.out_len /\ AllHexDigits(ph.hex))
        /\ ph.ret = -1 => ph.out = Vec(ph.out_len, UNWRITTEN)

\* the result value alone: 0 exactly for well-formed strings, else -1
ParseHexResult ==
    ph.pc = "done" =>
        /\ ph.ret \in {0, -1}
        /\ ph.ret = 0 <=> (Len(ph.hex) = 2 * ph.out_len /\ AllHexDigits(ph.hex))
        /\ ph.ret = 0 =>
              \A k \in 0 .. ph.out_len - 1 :
                  ph.out[k] = 16 * hexchar_to_int(ph.hex[2 * k + 1])
                              + hexchar_to_int(ph.hex[2 * k + 2])

\* parse_hex has returned -1 after decoding a leading byte pair
C11_PartialBuffer ==
    /\ ph.pc = "done"
    /\ ph.ret = -1
    /\ ph.i > 0
    /\ ph.out[0] # UNWRITTEN

\* ------------------------------------------------------------------------
\* matrix_multiply, one output element at a time
\* ------------------------------------------------------------------------
\* the row and input vectors of cols elements a caller passes
MulVectors(cols) ==
    {Vec(cols, 0), Vec(cols, 255), Unit(cols, cols - 1), [j \in 0 .. cols - 1 |-> 3 + 50 * j]}

\* digest bytes a noise cell is filled from
NoiseBytes == {0, 1, 127, 128, 255}

\* int32_t sum = 0 for row i of a rows x cols layer; e is noise cell e[i]
MulCall(row, in, b, cols) ==
    /\ mm.pc = "idle"
    /\ mm' = [pc |-> "loop", row |-> row, in |-> in, e |-> ToInt8(b), cols |-> cols,
              j |-> 0, sum |-> 0, out |-> UNWRITTEN]
    /\ UNCHANGED <<cacheVars, variant, ph, ctx, ctor>>

\* sum += (int32_t)A[i][j] * in[j]
MulStep ==
    /\ mm.pc = "loop"
    /\ IF mm.j < mm.cols
       THEN mm' = [mm EXCEPT !.sum = @ + mm.row[mm.j] * mm.in[mm.j], !.j = @ + 1]
       ELSE mm' = [mm EXCEPT !.pc = "noise"]
    /\ UNCHANGED <<cacheVars, variant, ph, ctx, ctor>>

\* sum += e[i]; out[i] = mod256(sum)
MulNoise ==
    /\ mm.pc = "noise"
    /\ mm' = [mm EXCEPT !.sum = @ + mm.e, !.out = mod256(mm.sum + mm.e), !.pc = "done"]
    /\ UNCHANGED <<cacheVars, variant, ph, ctx, ctor>>

MulReturn ==
    /\ mm.pc = "done"
    /\ mm' = NoMm
    /\ UNCHANGED <<cacheVars, variant, ph, ctx, ctor>>

NextMul ==
    \/ \E cols \in {IN_SIZE, HIDDEN} :
          \E row \in MulVectors(cols), in \in MulVectors(cols), b \in NoiseBytes :
              MulCall(row, in, b, cols)
    \/ MulStep
    \/ MulNoise
    \/ MulReturn

SpecMul == Init /\ [][NextMul]_vars

\* the unsigned byte an int8 noise cell was stored from
FromInt8(v) == IF v < 0 THEN v + 256 ELSE v

\* C12: for every layer shape the int32 accumulator cannot overflow, and
\* out[i] is (sum of A[i][j] * in[j], plus e[i] as a signed byte) reduced
\* modulo 256 into 0..255 by wraparound, for negative totals too; a digest
\* byte stored as a negative int8 gives the same out[i] as the unsigned byte.
C12_LayerArithmetic ==
    /\ SRC_HIDDEN * 255 * 255 + 127 <= INT32_MAX
    /\ SRC_IN_SIZE * 255 * 255 + 127 <= INT32_MAX
    /\ -128 >= INT32_MIN
    /\ mm.pc # "idle" =>
          /\ mm.sum >= -128
          /\ mm.sum <= mm.j * 255 * 255 + 127
          /\ mm.j <= mm.cols
    /\ mm.pc = "done" =>
          LET total == DotAcc(mm.row, mm.in, mm.cols, 0) + mm.e
          IN  /\ mm.sum = total
              /\ mm.out \in 0 .. 255
              /\ \E q \in -1 .. mm.cols * 255 : total = 256 * q + mm.out
              /\ mm.out = mod256(DotAcc(mm.row, mm.in, mm.cols, 0) + FromInt8(mm.e))
              /\ mm.out = matrix_multiply([i \in {0} |-> mm.row], mm.in,
                                          [i \in {0} |-> mm.e], 0, 1, mm.cols)[0]

\* a negative total has been reduced into 0..255
C12_Witness ==
    /\ mm.pc = "done"
    /\ mm.sum < 0
    /\ mm.out = mm.sum + 256

\* ------------------------------------------------------------------------
\* Mode B: the ternary cascade (tens_hash.cpp)
\* ------------------------------------------------------------------------
TENS_IN_SIZE == IN_SIZE

INPUT_BITS == TENS_IN_SIZE * 8

TENS_HIDDEN == HiddenFactor * INPUT_BITS

NUM_HIDDEN_LAYERS == ROUNDS

\* a uint64_t below 256 as its eight bytes, least significant first
U64(n) == [k \in 0 .. 7 |-> IF k = 0 THEN n ELSE 0]

\* to_big_endian(val): the bytes in reverse order
to_big_endian(val) == [k \in 0 .. 7 |-> val[7 - k]]

\* how the cipher mixes the eight nonce bytes
NonceMix(nonce) ==
    (nonce[0] * 2 + nonce[1] * 3 + nonce[2] * 5 + nonce[3] * 7 + nonce[4] * 11
     + nonce[5] * 13 + nonce[6] * 17 + nonce[7] * 19) % 251

\* ChaCha20 keystream byte pos under key and Nonce96 (0, nonce), block 0
KeystreamNonce(key, nonce, pos) ==
    LET km == KeyMix(key, 0)
        nm == NonceMix(nonce)
        x  == (((pos * pos) % 65521) * (km + 2) + pos * (nm * 7 + 13) + km * nm
               + 977 * nm + 41) % 65521
    IN  (x \div 16) % 256

\* lines 50-58: a keystream byte to a ternary coefficient
Ternary(byte) ==
    LET m == byte % 4
    IN  IF m = 0 \/ m = 1 THEN 0 ELSE IF m = 2 THEN 1 ELSE -1

\* generate_dense_matrix(rows, cols, seed, nonce_counter, matrix)
generate_dense_matrix(rows, cols, seed, nonce_counter) ==
    [i \in 0 .. rows * cols - 1 |->
        Ternary(KeystreamNonce(seed, to_big_endian(U64(nonce_counter)), i))]

\* offset of hidden matrix r inside hidden_mats
HiddenOffset_first(r) == 0

HiddenOffset(r) == r * TENS_HIDDEN * TENS_HIDDEN

\* a counter that is never incremented
NonceCounter_fixed(k) == 0

\* the value nonce_counter++ yields in the call number k (from 0) of
\* generate_dense_matrix
NonceCounter(k) == k

\* generate_all_matrices(ctx, seed): nonce_counter++ for each stage; nonces
\* lists the counter values passed, in call order
generate_all_matrices_ctx(seed) ==
    [expansion_mat   |-> generate_dense_matrix(TENS_HIDDEN, INPUT_BITS, seed,
                                               NonceCounter(0)),
     hidden_mats     |->
        [k \in 0 .. NUM_HIDDEN_LAYERS * TENS_HIDDEN * TENS_HIDDEN - 1 |->
            generate_dense_matrix(TENS_HIDDEN, TENS_HIDDEN, seed,
                                  NonceCounter(1 + (k \div (TENS_HIDDEN * TENS_HIDDEN))))
                [k % (TENS_HIDDEN * TENS_HIDDEN)]],
     compression_mat |-> generate_dense_matrix(INPUT_BITS, TENS_HIDDEN, seed,
                                               NonceCounter(1 + NUM_HIDDEN_LAYERS)),
     nonces          |-> [n \in 1 .. NUM_HIDDEN_LAYERS + 2 |-> NonceCounter(n - 1)]]

\* the byte order swap of lines 166-169, 206-208 and 250-252
Reverse(bytes) == [i \in 0 .. TENS_IN_SIZE - 1 |-> bytes[TENS_IN_SIZE - 1 - i]]

RECURSIVE Pow2(_)
Pow2(n) == IF n = 0 THEN 1 ELSE 2 * Pow2(n - 1)

\* (x >> n) & 1
BitOf(x, n) == (x \div Pow2(n)) % 2

\* lines 217-222: memset(state, 0) and the bits of the swapped input
UnpackBits(bytes) ==
    [k \in 0 .. TENS_HIDDEN - 1 |->
        IF k < INPUT_BITS THEN BitOf(bytes[k \div 8], 7 - (k % 8)) ELSE 0]

RECURSIVE PackByte(_, _, _)
\* out_bytes[b] |= (1 << (7 - (i % 8))) for the set bits i of byte b
PackByte(bits, b, j) ==
    IF j = 8 THEN 0
    ELSE (IF bits[8 * b + j] # 0 THEN Pow2(7 - j) ELSE 0) + PackByte(bits, b, j + 1)

\* a packing that puts bit i at position i % 8
pack_bits_lsb(bits) ==
    [b \in 0 .. TENS_IN_SIZE - 1 |-> PackByte([k \in 0 .. INPUT_BITS - 1 |->
                                                 bits[8 * (k \div 8) + 7 - (k % 8)]], b, 0)]

\* pack_bits(bits, out_bytes)
pack_bits(bits) == [b \in 0 .. TENS_IN_SIZE - 1 |-> PackByte(bits, b, 0)]

RECURSIVE RowDot(_, _, _, _, _)
\* sum += row[i] * x_mapped[i] for the row that starts at base
RowDot(matrix, base, x_mapped, in_dim, i) ==
    IF i = in_dim THEN 0
    ELSE matrix[base + i] * x_mapped[i] + RowDot(matrix, base, x_mapped, in_dim, i + 1)

\* a layer whose threshold lets a zero accumulator through
layer_forward_ge(matrix, off, in_dim, out_dim, input) ==
    LET x_mapped == [i \in 0 .. in_dim - 1 |-> 2 * input[i] - 1]
    IN  [j \in 0 .. out_dim - 1 |->
            LET sum == RowDot(matrix, off + j * in_dim, x_mapped, in_dim, 0)
                       + (IF in_dim = out_dim THEN x_mapped[j] ELSE 0)
            IN  IF sum >= 0 THEN 1 ELSE 0]

\* layer_forward(matrix + off, in_dim, out_dim, input, output): the first
\* out_dim elements it writes
layer_forward(matrix, off, in_dim, out_dim, input) ==
    LET x_mapped == [i \in 0 .. in_dim - 1 |-> 2 * input[i] - 1]
    IN  [j \in 0 .. out_dim - 1 |->
            LET sum == RowDot(matrix, off + j * in_dim, x_mapped, in_dim, 0)
                       + (IF in_dim = out_dim THEN x_mapped[j] ELSE 0)
            IN  IF sum > 0 THEN 1 ELSE 0]

\* a buffer of TENS_HIDDEN elements after out_dim of them were overwritten
Overwrite(old, new, out_dim) ==
    [k \in 0 .. TENS_HIDDEN - 1 |-> IF k < out_dim THEN new[k] ELSE old[k]]

\* the inputs callers hash in Mode B
BInputs == Inputs \cup {Unit(IN_SIZE, 0)}

\* tens_hash(input, seed, output) is entered
BCall(seed, input) ==
    /\ variant = "modeB"
    /\ ctx.pc = "idle"
    /\ ctx' = [NoCtx EXCEPT !.pc = "init", !.seed = seed, !.input = input]
    /\ UNCHANGED <<cacheVars, variant, ph, mm, ctor>>

\* tens_hash_init(seed): nullptr when one of the six allocations fails, else
\* a context with zeroed state buffers and the matrices of the swapped seed
BInit ==
    /\ ctx.pc = "init"
    /\ \E fail \in 0 .. 6 :
          IF fail # 0
          THEN ctx' = [ctx EXCEPT !.pc = "return"]
          ELSE LET g == generate_all_matrices_ctx(Reverse(ctx.seed))
               IN  ctx' = [ctx EXCEPT !.pc = "unpack", !.live = TRUE,
                                      !.state = 1, !.next_state = 2,
                                      !.buf = <<Vec(TENS_HIDDEN, 0), Vec(TENS_HIDDEN, 0)>>,
                                      !.expansion_mat = g.expansion_mat,
                                      !.hidden_mats = g.hidden_mats,
                                      !.compression_mat = g.compression_mat,
                                      !.nonces = g.nonces,
                                      !.evals = 1]
    /\ UNCHANGED <<cacheVars, variant, ph, mm, ctor>>

\* tens_hash_precomputed lines 204-222
BUnpack ==
    /\ ctx.pc = "unpack"
    /\ ctx' = [ctx EXCEPT !.buf[ctx.state] = UnpackBits(Reverse(ctx.input)),
                          !.layers = <<>>,
                          !.pc = "expand"]
    /\ UNCHANGED <<cacheVars, variant, ph, mm, ctor>>

\* lines 225-228: the expansion layer and the pointer swap
BExpand ==
    /\ ctx.pc = "expand"
    /\ LET out == layer_forward(ctx.expansion_mat, 0, INPUT_BITS, TENS_HIDDEN,
                                ctx.buf[ctx.state])
       IN  ctx' = [ctx EXCEPT
                      !.buf[ctx.next_state] = Overwrite(@, out, TENS_HIDDEN),
                      !.state = ctx.next_state,
                      !.next_state = ctx.state,
                      !.layers = Append(@, [stage |-> "expand", offset |-> 0,
                                            in_dim |-> INPUT_BITS, out_dim |-> TENS_HIDDEN,
                                            src |-> ctx.state, dst |-> ctx.next_state,
                                            in |-> ctx.buf[ctx.state], out |-> out]),
                      !.r = 0,
                      !.pc = "hidden"]
    /\ UNCHANGED <<cacheVars, variant, ph, mm, ctor>>

\* lines 231-237: one hidden layer and the pointer swap
BHidden ==
    /\ ctx.pc = "hidden"
    /\ LET off == HiddenOffset(ctx.r)
           out == layer_forward(ctx.hidden_mats, off, TENS_HIDDEN, TENS_HIDDEN,
                                ctx.buf[ctx.state])
       IN  ctx' = [ctx EXCEPT
                      !.buf[ctx.next_state] = Overwrite(@, out, TENS_HIDDEN),
                      !.state = ctx.next_state,
                      !.next_state = ctx.state,
                      !.layers = Append(@, [stage |-> "hidden", offset |-> off,
                                            in_dim |-> TENS_HIDDEN, out_dim |-> TENS_HIDDEN,
                                            src |-> ctx.state, dst |-> ctx.next_state,
                                            in |-> ctx.buf[ctx.state], out |-> out]),
                      !.r = @ + 1,
                      !.pc = IF ctx.r + 1 < NUM_HIDDEN_LAYERS THEN "hidden" ELSE "compress"]
    /\ UNCHANGED <<cacheVars, variant, ph, mm, ctor>>

\* lines 240-253: the compression layer (no swap), pack_bits, byte reversal
BCompress ==
    /\ ctx.pc = "compress"
    /\ LET out == layer_forward(ctx.compression_mat, 0, TENS_HIDDEN, INPUT_BITS,
                                ctx.buf[ctx.state])
       IN  ctx' = [ctx EXCEPT
                      !.buf[ctx.next_state] = Overwrite(@, out, INPUT_BITS),
                      !.output = Reverse(pack_bits(out)),
                      !.layers = Append(@, [stage |-> "compress", offset |-> 0,
                                            in_dim |-> TENS_HIDDEN, out_dim |-> INPUT_BITS,
                                            src |-> ctx.state, dst |-> ctx.next_state,
                                            in |-> ctx.buf[ctx.state], out |-> out]),
                      !.pc = "evaluated"]
    /\ UNCHANGED <<cacheVars, variant, ph, mm, ctor>>

\* layer_forward lines 101-105: malloc of x_mapped fails and the process ends
BExit ==
    /\ ctx.pc \in {"expand", "hidden", "compress"}
    /\ ctx' = [ctx EXCEPT !.pc = "exit"]
    /\ UNCHANGED <<cacheVars, variant, ph, mm, ctor>>

\* a caller of tens_hash_init evaluates another input on the same context
BEvaluateAgain(input) ==
    /\ ctx.pc = "evaluated"
    /\ ctx.evals < MaxEvals
    /\ ctx' = [ctx EXCEPT !.pc = "unpack", !.input = input, !.evals = @ + 1,
                          !.output = Vec(IN_SIZE, UNWRITTEN), !.layers = <<>>]
    /\ UNCHANGED <<cacheVars, variant, ph, mm, ctor>>

\* tens_hash_free(ctx): free(ctx->state); free(ctx->next_state)
BFree ==
    /\ ctx.pc = "evaluated"
    /\ ctx' = [ctx EXCEPT !.pc = "return", !.live = FALSE,
                          !.freed = <<ctx.state, ctx.next_state>>]
    /\ UNCHANGED <<cacheVars, variant, ph, mm, ctor>>

\* tens_hash returns (void)
BReturn ==
    /\ ctx.pc = "return"
    /\ ctx' = NoCtx
    /\ UNCHANGED <<cacheVars, variant, ph, mm, ctor>>

\* the steps of the Mode B tens_hash
ModeB ==
    \/ \E seed \in Seeds, input \in BInputs : BCall(seed, input)
    \/ BInit
    \/ BUnpack
    \/ BExpand
    \/ BHidden
    \/ BCompress
    \/ BExit
    \/ \E input \in BInputs : BEvaluateAgain(input)
    \/ BFree
    \/ BReturn

\* the steps of the cached Mode A tens_hash with a sequential caller
ModeA ==
    /\ variant = "modeA"
    /\ \/ \E s \in Seeds, x \in Inputs : Call(1, s, x)
       \/ Body(1)
       \/ Return(1)

\* a build links one of the two variants of tens_hash
InitModes == InitCommon /\ locking = FALSE /\ variant \in {"modeA", "modeB"}

NextModes == ModeA \/ ModeB

SpecModes == InitModes /\ [][NextModes]_vars

\* ------------------------------------------------------------------------
\* Properties of one evaluation in either mode (SpecModes)
\* ------------------------------------------------------------------------
\* layer k of a Mode A evaluation by caller t is the layer the cascade has
\* at position k: stage, matrix, noise slice, input vector, output vector
LayerInOrderA(t, k) ==
    LET L == layers[t]
        m == mheap[mloc[t]].mats
        e == bheap[bloc[t]].noise
    IN  IF k = 1
        THEN /\ L[k].stage = "expand"
             /\ L[k].noise = 0
             /\ L[k].in = arg[t].input
             /\ L[k].out = matrix_multiply(m.expand_mat, L[k].in, e, 0, HIDDEN, IN_SIZE)
        ELSE IF k <= ROUNDS + 1
        THEN /\ L[k].stage = "middle"
             /\ L[k].matrix = k - 2
             /\ L[k].noise = HIDDEN + (k - 2) * HIDDEN
             /\ L[k].in = L[k - 1].out
             /\ L[k].out = matrix_multiply(m.middle_mats[k - 2], L[k].in, e,
                                           HIDDEN + (k - 2) * HIDDEN, HIDDEN, HIDDEN)
        ELSE /\ L[k].stage = "compress"
             /\ L[k].noise = HIDDEN + ROUNDS * HIDDEN
             /\ L[k].in = L[k - 1].out
             /\ L[k].out = matrix_multiply(m.compress_mat, L[k].in, e,
                                           HIDDEN + ROUNDS * HIDDEN, IN_SIZE, HIDDEN)

\* the first n elements of a buffer
Prefix(v, n) == [k \in 0 .. n - 1 |-> v[k]]

\* layer k of the Mode B evaluation in progress, likewise
LayerInOrderB(k) ==
    LET L == ctx.layers
    IN  IF k = 1
        THEN /\ L[k].stage = "expand"
             /\ Prefix(L[k].in, INPUT_BITS) = Prefix(UnpackBits(Reverse(ctx.input)), INPUT_BITS)
             /\ L[k].out = layer_forward(ctx.expansion_mat, 0, INPUT_BITS, TENS_HIDDEN,
                                         L[k].in)
        ELSE IF k <= NUM_HIDDEN_LAYERS + 1
        THEN /\ L[k].stage = "hidden"
             /\ L[k].offset = (k - 2) * TENS_HIDDEN * TENS_HIDDEN
             /\ L[k].in = L[k - 1].out
             /\ L[k].out = layer_forward(ctx.hidden_mats,
                                         (k - 2) * TENS_HIDDEN * TENS_HIDDEN,
                                         TENS_HIDDEN, TENS_HIDDEN, L[k].in)
        ELSE /\ L[k].stage = "compress"
             /\ L[k].in = L[k - 1].out
             /\ L[k].out = layer_forward(ctx.compression_mat, 0, TENS_HIDDEN, INPUT_BITS,
                                         L[k].in)

\* C13: in both modes an evaluation applies expand, middle round 0 .. ROUNDS-1
\* and compress in this order, each once; round r uses matrix r (in Mode A
\* with the noise slice at HIDDEN + r * HIDDEN), every layer reads the
\* output of the layer before it, and the result is the compression output.
C13_LayersInOrder ==
    /\ Len(layers[1]) <= ROUNDS + 2
    /\ \A k \in 1 .. Len(layers[1]) : LayerInOrderA(1, k)
    /\ (pc[1] = "round" \/ pc[1] = "compress") => Len(layers[1]) = 1 + round[1]
    /\ (pc[1] = "return" /\ ~Unwritten(output[1])) =>
          /\ Len(layers[1]) = ROUNDS + 2
          /\ output[1] = layers[1][ROUNDS + 2].out
    /\ Len(ctx.layers) <= NUM_HIDDEN_LAYERS + 2
    /\ \A k \in 1 .. Len(ctx.layers) : LayerInOrderB(k)
    /\ ctx.pc = "hidden" => Len(ctx.layers) = 1 + ctx.r
    /\ ctx.pc = "evaluated" =>
          /\ Len(ctx.layers) = NUM_HIDDEN_LAYERS + 2
          /\ ctx.output = Reverse(pack_bits(ctx.layers[NUM_HIDDEN_LAYERS + 2].out))

\* a Mode B evaluation has applied all its layers
C13_Witness ==
    /\ variant = "modeB"
    /\ ctx.pc = "evaluated"
    /\ Len(ctx.layers) = NUM_HIDDEN_LAYERS + 2
    /\ ctx.layers[NUM_HIDDEN_LAYERS + 1].offset > 0

\* a Mode A evaluation has applied all its layers
ModeAEvaluated ==
    /\ variant = "modeA"
    /\ pc[1] = "return"
    /\ Len(layers[1]) = ROUNDS + 2

\* the weights a recorded Mode B layer used
WeightsOf(ev) ==
    IF ev.stage = "expand" THEN ctx.expansion_mat
    ELSE IF ev.stage = "hidden" THEN ctx.hidden_mats
    ELSE ctx.compression_mat

\* the accumulator of output j of a recorded layer, counted rather than
\* summed: inputs whose mapped value has the sign of the weight, minus
\* those of the opposite sign, plus the mapped input j when residual
Accumulator(ev, j, residual) ==
    LET w(i)  == WeightsOf(ev)[ev.offset + j * ev.in_dim + i]
        x(i)  == IF ev.in[i] = 1 THEN 1 ELSE -1
        plus  == {i \in 0 .. ev.in_dim - 1 : w(i) # 0 /\ w(i) = x(i)}
        minus == {i \in 0 .. ev.in_dim - 1 : w(i) # 0 /\ w(i) # x(i)}
    IN  Cardinality(plus) - Cardinality(minus) + (IF residual THEN x(j) ELSE 0)

\* C14: every Mode B layer maps input bit b to 2b-1 and sets output j to 1
\* exactly when the dot product of weight row j with the mapped input, plus
\* the mapped input j if and only if in_dim = out_dim, is greater than 0; the
\* residual is added in the middle rounds only; every output element is 0 or 1.
C14_LayerForward ==
    \A k \in 1 .. Len(ctx.layers) :
        LET ev == ctx.layers[k]
        IN  /\ (ev.in_dim = ev.out_dim) <=> (ev.stage = "hidden")
            /\ \A i \in 0 .. ev.in_dim - 1 : ev.in[i] \in {0, 1}
            /\ \A i \in 0 .. ev.in_dim - 1 :
                  WeightsOf(ev)[ev.offset + i] \in {-1, 0, 1}
            /\ \A j \in 0 .. ev.out_dim - 1 :
                  /\ ev.out[j] \in {0, 1}
                  /\ ev.out[j] = 1 <=> Accumulator(ev, j, ev.stage = "hidden") > 0

\* a completed evaluation in which a middle round met a zero accumulator
C14_Witness ==
    /\ ctx.pc = "evaluated"
    /\ \E k \in 1 .. Len(ctx.layers) :
          /\ ctx.layers[k].stage = "hidden"
          /\ \E j \in 0 .. TENS_HIDDEN - 1 :
                /\ Accumulator(ctx.layers[k], j, TRUE) = 0
                /\ ctx.layers[k].out[j] = 0
          /\ \E j \in 0 .. TENS_HIDDEN - 1 :
                /\ Accumulator(ctx.layers[k], j, TRUE) # Accumulator(ctx.layers[k], j, FALSE)
                /\ ctx.layers[k].out[j] = 1

RECURSIVE Tabulate(_, _, _)
\* the elements 0 .. n-1 of a vector, listed
Tabulate(v, n, acc) ==
    IF Len(acc) = n THEN acc ELSE Tabulate(v, n, Append(acc, v[Len(acc)]))

\* a vector of n elements written out in full
Stored(v, n) ==
    LET t == Tabulate(v, n, <<>>)
    IN  [k \in 0 .. n - 1 |-> t[k + 1]]

RECURSIVE HiddenLayers(_, _)
\* the hidden layers r, r + 1, ... applied to the vector st
HiddenLayers(st, r) ==
    IF r = NUM_HIDDEN_LAYERS THEN st
    ELSE LET next == Stored(layer_forward(ctx.hidden_mats,
                                          r * TENS_HIDDEN * TENS_HIDDEN,
                                          TENS_HIDDEN, TENS_HIDDEN, st), TENS_HIDDEN)
         IN  HiddenLayers(next, r + 1)

\* the cascade of the current context on a vector of input bits
Cascade(bits) ==
    LET st0 == Stored(layer_forward(ctx.expansion_mat, 0, INPUT_BITS, TENS_HIDDEN,
                                    bits), TENS_HIDDEN)
        stR == Stored(HiddenLayers(st0, 0), TENS_HIDDEN)
    IN  layer_forward(ctx.compression_mat, 0, TENS_HIDDEN, INPUT_BITS, stR)

\* bit n (0 the least significant) of a byte, by repeated halving
RECURSIVE BitByHalving(_, _)
BitByHalving(x, n) == IF n = 0 THEN x % 2 ELSE BitByHalving(x \div 2, n - 1)

\* C15: internal bit 8i+j of the cascade input is bit 7-j of caller byte
\* input[IN_SIZE-1-i]; internal output bit k is bit 7 - k mod 8 of caller
\* byte output[IN_SIZE-1 - k div 8]; the digest is the reversed MSB-first
\* packing of the cascade of the MSB-first unpacking of the reversed input;
\* packing the unpacked bits of a value gives the value back.
C15_ByteBitOrder ==
    /\ Len(ctx.layers) >= 1 =>
          \A i \in 0 .. TENS_IN_SIZE - 1 : \A j \in 0 .. 7 :
              ctx.layers[1].in[8 * i + j]
                  = BitByHalving(ctx.input[TENS_IN_SIZE - 1 - i], 7 - j)
    /\ ctx.pc = "evaluated" =>
          /\ \A k \in 0 .. INPUT_BITS - 1 :
                BitByHalving(ctx.output[TENS_IN_SIZE - 1 - (k \div 8)], 7 - (k % 8))
                    = ctx.layers[NUM_HIDDEN_LAYERS + 2].out[k]
          /\ ctx.output = Reverse(pack_bits(Cascade(UnpackBits(Reverse(ctx.input)))))
          /\ pack_bits(UnpackBits(ctx.input)) = ctx.input
          /\ pack_bits(UnpackBits(ctx.output)) = ctx.output

\* a digest whose bytes differ and are not bit palindromes
C15_Witness ==
    /\ ctx.pc = "evaluated"
    /\ ctx.output # Reverse(ctx.output)
    /\ ctx.input # Reverse(ctx.input)
    /\ \E b \in 0 .. TENS_IN_SIZE - 1 :
          \E j \in 0 .. 7 : BitByHalving(ctx.output[b], j) # BitByHalving(ctx.output[b], 7 - j)

\* a keystream whose byte at position p is p itself
Positions == [p \in 0 .. total_size - 1 |-> p]

\* the stages of a Mode A fill read the keystream positions in order: the
\* expansion rows first, then middle matrix 0, 1, ..., then compression
ConsecutiveRegions(f) ==
    /\ \A i \in 0 .. HIDDEN - 1 : \A j \in 0 .. IN_SIZE - 1 :
          f.expand_mat[i][j] = i * IN_SIZE + j
    /\ \A r \in 0 .. ROUNDS - 1 : \A i \in 0 .. HIDDEN - 1 : \A j \in 0 .. HIDDEN - 1 :
          f.middle_mats[r][i][j] = HIDDEN * IN_SIZE + r * HIDDEN * HIDDEN + i * HIDDEN + j
    /\ \A i \in 0 .. IN_SIZE - 1 : \A j \in 0 .. HIDDEN - 1 :
          f.compress_mat[i][j] =
              HIDDEN * IN_SIZE + ROUNDS * HIDDEN * HIDDEN + i * HIDDEN + j
    /\ HIDDEN * IN_SIZE + ROUNDS * HIDDEN * HIDDEN + IN_SIZE * HIDDEN = total_size

\* the matrix of a Mode B stage is the keystream of that stage's own nonce
StageOfNonce(matrix, rows, cols, nonce_counter) ==
    \A i \in 0 .. rows * cols - 1 :
        matrix[i] = Ternary(KeystreamNonce(Reverse(ctx.seed),
                                           to_big_endian(U64(nonce_counter)), i))

\* C16: within one MatrixSet no keystream position feeds two coefficients
\* and the stages are filled in the order expansion, middle 0.., compression:
\* Mode A slices one keystream of total_size bytes into consecutive regions
\* without gap or overlap; Mode B runs one cipher invocation per stage with
\* nonce 0 for expansion, 1..ROUNDS for the middle matrices, ROUNDS + 1 for
\* compression, all different.
C16_KeystreamRegions ==
    /\ (pc[1] = "init_buffers" /\ cachedMatrices # NULL
            /\ mheap[cachedMatrices].written) =>
          /\ ConsecutiveRegions(FillPerRowFrom(Positions))
          /\ ConsecutiveRegions(FillBlocksFrom(Positions))
          /\ DOMAIN Keystream(cachedSeed, total_size) = 0 .. total_size - 1
          /\ mheap[cachedMatrices].mats
                 = FillPerRowFrom(Keystream(arg[1].seed, total_size))
    /\ (ctx.pc = "unpack" /\ ctx.evals = 1) =>
          /\ Len(ctx.nonces) = NUM_HIDDEN_LAYERS + 2
          /\ \A a \in 1 .. Len(ctx.nonces) : \A b \in 1 .. Len(ctx.nonces) :
                a # b => to_big_endian(U64(ctx.nonces[a])) # to_big_endian(U64(ctx.nonces[b]))
          /\ \A a \in 1 .. Len(ctx.nonces) : ctx.nonces[a] = a - 1
          /\ StageOfNonce(ctx.expansion_mat, TENS_HIDDEN, INPUT_BITS, 0)
          /\ \A r \in 0 .. NUM_HIDDEN_LAYERS - 1 :
                StageOfNonce([i \in 0 .. TENS_HIDDEN * TENS_HIDDEN - 1 |->
                                 ctx.hidden_mats[r * TENS_HIDDEN * TENS_HIDDEN + i]],
                             TENS_HIDDEN, TENS_HIDDEN, 1 + r)
          /\ StageOfNonce(ctx.compression_mat, INPUT_BITS, TENS_HIDDEN,
                          1 + NUM_HIDDEN_LAYERS)

\* a Mode B context whose matrices were generated
C16_Witness ==
    /\ variant = "modeB"
    /\ ctx.live
    /\ ctx.pc = "unpack"
    /\ Len(ctx.nonces) = NUM_HIDDEN_LAYERS + 2

\* a Mode A MatrixSet whose coefficients were generated
ModeAGenerated ==
    /\ variant = "modeA"
    /\ pc[1] = "init_buffers"
    /\ cachedMatrices # NULL
    /\ mheap[cachedMatrices].written

\* ------------------------------------------------------------------------
\* Re-driving a failed construction (Spec)
\* ------------------------------------------------------------------------
\* C17: after a cached Evaluate(s, .) whose construction failed, a later
\* Evaluate(s, x) in which no allocation fails rebuilds the entry and returns
\* the digest; between calls the slot never records s as the cached seed
\* while the MatrixSet or the ScratchBuffers for s is missing.
C17_FailedBuildRedriven ==
    /\ (pc[1] = "idle" /\ cacheInitialized) =>
          cachedMatrices # NULL /\ cachedBuffers # NULL
    /\ (pc[1] = "return" /\ snap[1].hit /\ eff[1].fails = 0
            /\ (snap[1].cm = NULL \/ snap[1].cb = NULL)) =>
          /\ eff[1].allocs > 0
          /\ output[1] = Digest(arg[1].seed, arg[1].input)

\* a call for the seed of a failed build returns without having allocated
\* anything and without a digest
C17_NotRedriven ==
    /\ pc[1] = "return"
    /\ snap[1].hit
    /\ snap[1].cm = NULL
    /\ eff[1] = NoEff
    /\ Unwritten(output[1])

\* ------------------------------------------------------------------------
\* The construction paths, block by block
\* ------------------------------------------------------------------------
\* blocks are named after the pointer that holds them
ExpandRows(n) == [j \in 1 .. n |-> <<"expand_mat[]", j - 1>>]

MiddleRows(r, n) == [i \in 1 .. n |-> <<"middle_mats[][]", r, i - 1>>]

CompressRows(n) == [j \in 1 .. n |-> <<"compress_mat[]", j - 1>>]

RECURSIVE MiddleAllocs(_)
\* the allocations of the loop over r of the cached precompute_matrices,
\* rounds 0 .. r-1: the pointer array, then its rows
MiddleAllocs(r) ==
    IF r = 0 THEN <<>>
    ELSE MiddleAllocs(r - 1) \o <<<<"middle_mats[]", r - 1>>>> \o MiddleRows(r - 1, HIDDEN)

RECURSIVE MiddleFrees(_)
\* for (j < r) { for (i < HIDDEN) free(middle_mats[j][i]); free(middle_mats[j]); }
MiddleFrees(r) ==
    IF r = 0 THEN <<>>
    ELSE MiddleFrees(r - 1) \o MiddleRows(r - 1, HIDDEN) \o <<<<"middle_mats[]", r - 1>>>>

\* the malloc calls of the cached precompute_matrices, in program order
AllocsCached ==
    <<<<"matrices">>, <<"expand_mat">>>> \o ExpandRows(HIDDEN) \o MiddleAllocs(ROUNDS)
        \o <<<<"compress_mat">>>> \o CompressRows(IN_SIZE)

\* what the failure branch of the cached precompute_matrices frees when the
\* malloc of block b returned NULL (part_000 lines 128-201)
CleanupCached(b) ==
    LET tail == ExpandRows(HIDDEN) \o <<<<"expand_mat">>, <<"matrices">>>>
    IN  IF b[1] = "matrices" THEN <<>>
        ELSE IF b[1] = "expand_mat" THEN <<<<"matrices">>>>
        ELSE IF b[1] = "expand_mat[]"
             THEN ExpandRows(b[2]) \o <<<<"expand_mat">>, <<"matrices">>>>
        ELSE IF b[1] = "middle_mats[]"
             THEN ExpandRows(HIDDEN) \o <<<<"expand_mat">>>> \o MiddleFrees(b[2])
                  \o <<<<"matrices">>>>
        ELSE IF b[1] = "middle_mats[][]"
             THEN MiddleRows(b[2], b[3]) \o <<<<"middle_mats[]", b[2]>>>>
                  \o MiddleFrees(b[2]) \o tail
        ELSE IF b[1] = "compress_mat" THEN MiddleFrees(ROUNDS) \o tail
        ELSE CompressRows(b[2]) \o <<<<"compress_mat">>>> \o MiddleFrees(ROUNDS) \o tail

RECURSIVE BlockAllocs(_)
\* the allocations of the loop over r of the one-shot precompute_matrices
BlockAllocs(r) ==
    IF r = 0 THEN <<>>
    ELSE BlockAllocs(r - 1) \o <<<<"middle_mats[]", r - 1>>, <<"middle_mats[][0]", r - 1>>>>

RECURSIVE BlockFrees(_)
\* for (j < r) { free(middle_mats[j][0]); free(middle_mats[j]); }
BlockFrees(r) ==
    IF r = 0 THEN <<>>
    ELSE BlockFrees(r - 1) \o <<<<"middle_mats[][0]", r - 1>>, <<"middle_mats[]", r - 1>>>>

\* the malloc calls of the one-shot precompute_matrices, in program order
AllocsOnce ==
    <<<<"matrices">>, <<"expand_mat">>, <<"expand_mat[0]">>>> \o BlockAllocs(ROUNDS)
        \o <<<<"compress_mat">>, <<"compress_mat[0]">>>>

\* the failure branches of the one-shot precompute_matrices
\* (tens_hash.c lines 159-222)
CleanupOnce(b) ==
    LET tail == <<<<"expand_mat[0]">>, <<"expand_mat">>, <<"matrices">>>>
    IN  IF b[1] = "matrices" THEN <<>>
        ELSE IF b[1] = "expand_mat" THEN <<<<"matrices">>>>
        ELSE IF b[1] = "expand_mat[0]" THEN <<<<"expand_mat">>, <<"matrices">>>>
        ELSE IF b[1] = "middle_mats[]" THEN BlockFrees(b[2]) \o tail
        ELSE IF b[1] = "middle_mats[][0]"
             THEN BlockFrees(b[2]) \o <<<<"middle_mats[]", b[2]>>>> \o tail
        ELSE IF b[1] = "compress_mat" THEN BlockFrees(ROUNDS) \o tail
        ELSE BlockFrees(ROUNDS) \o <<<<"compress_mat">>>> \o tail

\* init_hash_buffers (both variants): the struct, then three buffers that
\* are all requested before any of them is tested
AllocsBuffers == <<<<"buffers">>, <<"state">>, <<"next_state">>, <<"noise">>>>

\* tens_hash_init: the context, then alloc_context_buffers
AllocsContext ==
    <<<<"ctx">>, <<"expansion_mat">>, <<"hidden_mats">>, <<"compression_mat">>,
      <<"state">>, <<"next_state">>>>

\* the paths whose allocations are tested one by one
Sequential == {"precompute_matrices", "precompute_matrices (test_pow)"}

Paths == Sequential \cup {"init_hash_buffers", "init_hash_buffers (test_pow)",
                           "tens_hash_init"}

AllocsOf(path) ==
    IF path = "precompute_matrices" THEN AllocsCached
    ELSE IF path = "precompute_matrices (test_pow)" THEN AllocsOnce
    ELSE IF path = "tens_hash_init" THEN AllocsContext
    ELSE AllocsBuffers

\* free(p) for each pointer of the list that is not NULL, then the struct:
\* lines 106-111 of part_000, 265-270 of tens_hash.c, tens_hash_free
FreeNonNull(blocks, nulls) ==
    LET IsSet(b) == b \notin nulls
    IN  SelectSeq(SubSeq(blocks, 2, Len(blocks)), IsSet) \o <<blocks[1]>>

\* the blocks the failure path of a construction frees, in order
FreesOf(path, b, nulls) ==
    IF path = "precompute_matrices" THEN CleanupCached(b)
    ELSE IF path = "precompute_matrices (test_pow)" THEN CleanupOnce(b)
    ELSE IF AllocsOf(path)[1] = b THEN <<>>
    ELSE FreeNonNull(AllocsOf(path), nulls)

\* a construction function is called
CtorCall(path) ==
    /\ ctor.pc = "idle"
    /\ ctor' = [NoCtor EXCEPT !.pc = "alloc", !.path = path]
    /\ UNCHANGED <<cacheVars, variant, ph, mm, ctx>>

\* the next malloc/calloc of the function returns a block (ok) or NULL
CtorAlloc(ok) ==
    /\ ctor.pc = "alloc"
    /\ LET order == AllocsOf(ctor.path)
           b     == order[ctor.n + 1]
           last  == ctor.n + 1 = Len(order)
           nulls == IF ok THEN ctor.nulls ELSE ctor.nulls \cup {b}
           stop  == IF ctor.path \in Sequential \/ ctor.n = 0
                    THEN ~ok
                    ELSE last /\ nulls # {}
       IN  ctor' = [ctor EXCEPT
                       !.n = @ + 1,
                       !.live = IF ok THEN @ \cup {b} ELSE @,
                       !.nulls = nulls,
                       !.first = IF ~ok /\ @ = 0 THEN ctor.n + 1 ELSE @,
                       !.pc = IF stop THEN "cleanup"
                              ELSE IF last THEN "generate" ELSE "alloc"]
    /\ UNCHANGED <<cacheVars, variant, ph, mm, ctx>>

\* the failure branch: the frees of the branch, then return NULL
CtorCleanup ==
    /\ ctor.pc = "cleanup"
    /\ ctor' = [ctor EXCEPT
                    !.frees = FreesOf(ctor.path, AllocsOf(ctor.path)[ctor.first],
                                      ctor.nulls),
                    !.ret = "null",
                    !.pc = "done"]
    /\ UNCHANGED <<cacheVars, variant, ph, mm, ctx>>

\* all blocks are there: the matrices are generated.  The cached
\* generate_all_matrices returns at once when its malloc(total_size) fails
\* and precompute_matrices returns the object; the one-shot
\* generate_matrices calls exit(1); both free the buffer when they got it.
\* init_hash_buffers and tens_hash_init allocate nothing more with malloc.
CtorGenerate(ok) ==
    /\ ctor.pc = "generate"
    /\ ctor.path \notin Sequential => ok
    /\ ctor' = [ctor EXCEPT
                    !.n = IF ctor.path \in Sequential THEN @ + 1 ELSE @,
                    !.first = IF ok THEN @ ELSE ctor.n + 1,
                    !.written = ok,
                    !.ret = IF ok \/ ctor.path = "precompute_matrices"
                            THEN "object" ELSE "exit",
                    !.pc = "done"]
    /\ UNCHANGED <<cacheVars, variant, ph, mm, ctx>>

\* the caller has the result
CtorReturn ==
    /\ ctor.pc = "done"
    /\ ctor' = NoCtor
    /\ UNCHANGED <<cacheVars, variant, ph, mm, ctx>>

NextCtor ==
    \/ \E path \in Paths : CtorCall(path)
    \/ \E ok \in BOOLEAN : CtorAlloc(ok)
    \/ CtorCleanup
    \/ \E ok \in BOOLEAN : CtorGenerate(ok)
    \/ CtorReturn

SpecCtor == Init /\ [][NextCtor]_vars

\* how often block b is passed to free
TimesFreed(b) == Cardinality({k \in 1 .. Len(ctor.frees) : ctor.frees[k] = b})

\* a failed construction released exactly what it had allocated and
\* returned NULL
CleanFailure ==
    /\ ctor.ret = "null"
    /\ \A b \in ctor.live : TimesFreed(b) = 1
    /\ \A k \in 1 .. Len(ctor.frees) : ctor.frees[k] \in ctor.live

\* C18: in every construction path, whichever allocation of the call is the
\* first to fail, every block allocated before is freed exactly once, none
\* twice, no unallocated pointer is freed, and null is returned.
C18_FailureFreesEverything ==
    (ctor.pc = "done" /\ ctor.first # 0) => CleanFailure

\* the same for the allocations the construction functions test themselves
CleanupOfTestedAllocations ==
    (ctor.pc = "done" /\ ctor.first # 0 /\ ctor.first <= Len(AllocsOf(ctor.path)))
        => CleanFailure

\* the cached precompute_matrices returned an object although an
\* allocation of the call failed
C18_ObjectAfterFailure ==
    /\ ctor.pc = "done"
    /\ ctor.path = "precompute_matrices"
    /\ ctor.first = Len(AllocsCached) + 1
    /\ ctor.ret = "object"
    /\ ~ctor.written
    /\ ctor.frees = <<>>

\* ------------------------------------------------------------------------
\* The two state buffers
\* ------------------------------------------------------------------------
\* the two HIDDEN-length buffers calloc'ed at init
StateBuffers == {1, 2}

\* how often the buffer read changes from one recorded layer to the next,
\* from layer number first on: the pointer exchanges between them
Exchanges(L, first) == Cardinality({k \in first .. Len(L) - 1 : L[k + 1].src # L[k].src})

\* each recorded layer after the first reads what the one before wrote,
\* and none writes the buffer it reads
PingPong(L) ==
    /\ \A k \in 1 .. Len(L) : L[k].src # L[k].dst
    /\ \A k \in 2 .. Len(L) : L[k].src = L[k - 1].dst

\* C19: on one HashBuffers or context, over any sequence of evaluations,
\* state and next_state are the two distinct buffers allocated at init,
\* possibly exchanged; Mode A exchanges them ROUNDS times per evaluation and
\* Mode B NUM_HIDDEN_LAYERS + 1 times; no layer reads the buffer it writes;
\* the frees release each of the two buffers exactly once.
C19_PingPong ==
    /\ \A p \in Ptrs :
          bheap[p].live => /\ bheap[p].state # bheap[p].next_state
                           /\ {bheap[p].state, bheap[p].next_state} = StateBuffers
    /\ (variant = "modeA" /\ Evaluating(1) /\ Usable(1) /\ layers[1] # <<>>) =>
          /\ PingPong(layers[1])
          /\ bheap[bloc[1]].state = layers[1][Len(layers[1])].dst
    /\ ModeAEvaluated =>
          /\ PingPong(layers[1])
          /\ Exchanges(layers[1], 2) = ROUNDS
          /\ bheap[bloc[1]].state = layers[1][ROUNDS + 2].src
    /\ ctx.live => /\ ctx.state # ctx.next_state
                   /\ {ctx.state, ctx.next_state} = StateBuffers
                   /\ PingPong(ctx.layers)
    /\ (ctx.pc = "evaluated") =>
          /\ Exchanges(ctx.layers, 1) = NUM_HIDDEN_LAYERS + 1
          /\ ctx.state = ctx.layers[NUM_HIDDEN_LAYERS + 2].src
          /\ ctx.next_state = ctx.layers[NUM_HIDDEN_LAYERS + 2].dst
    /\ (ctx.pc = "return" /\ ctx.freed # <<>>) =>
          /\ ctx.freed[1] # ctx.freed[2]
          /\ {ctx.freed[1], ctx.freed[2]} = StateBuffers

\* a context is freed after more than one evaluation on it
C19_Witness ==
    /\ ctx.pc = "return"
    /\ ctx.evals = MaxEvals
    /\ Len(ctx.layers) = NUM_HIDDEN_LAYERS + 2
    /\ Len(ctx.freed) = 2

\* a cached HashBuffers is freed after an evaluation on it
BuffersFreedAfterUse ==
    /\ variant = "modeA"
    /\ pc[1] = "set_seed"
    /\ eff[1].frees > 0

\* ------------------------------------------------------------------------
\* The Mode A noise vector
\* ------------------------------------------------------------------------
\* the n noise bytes a layer adds, from offset off of the noise buffer
NoiseSlice(e, off, n) == [j \in 0 .. n - 1 |-> e[off + j]]

\* the noise buffer of caller t once generate_all_noise has filled it
NoiseGenerated(t) == pc[t] \in {"expand", "round", "compress"} /\ Usable(t)

\* C20: in Mode A, noise[i] is byte i mod OUTPUT_SIZE of the SHA-256 digest
\* of the input for every i below HIDDEN + ROUNDS*HIDDEN + IN_SIZE, whatever
\* the seed; HIDDEN being a multiple of the digest length, every middle
\* round adds the same HIDDEN bytes as the expansion, and the compression
\* adds the digest itself.
C20_NoiseVector ==
    /\ SRC_HIDDEN % SRC_DIGEST_SIZE = 0
    /\ SRC_IN_SIZE = SRC_DIGEST_SIZE
    /\ HIDDEN % OUTPUT_SIZE = 0
    /\ \A t \in Threads :
          NoiseGenerated(t) =>
             LET e      == bheap[bloc[t]].noise
                 digest == Sha256(arg[t].input)
             IN  /\ DOMAIN e = 0 .. HIDDEN + ROUNDS * HIDDEN + IN_SIZE - 1
                 /\ \A i \in DOMAIN e : e[i] = ToInt8(digest[i % OUTPUT_SIZE])
                 /\ \A k \in 1 .. Len(layers[t]) :
                       NoiseSlice(e, layers[t][k].noise, HIDDEN) = NoiseSlice(e, 0, HIDDEN)
                 /\ \A j \in 0 .. IN_SIZE - 1 :
                       e[HIDDEN + ROUNDS * HIDDEN + j] = ToInt8(digest[j])

\* the last middle round has added its noise, on buffers a call before
\* this one had filled
C20_Witness ==
    /\ pc[1] = "compress"
    /\ Usable(1)
    /\ seedMatches[1]
    /\ Len(layers[1]) = ROUNDS + 1
    /\ layers[1][ROUNDS + 1].noise = ROUNDS * HIDDEN

\* ------------------------------------------------------------------------
\* Supporting lemmas
\* ------------------------------------------------------------------------
\* the one-shot block slicing and the cached per-row slicing of the keystream
\* give the same matrices
SlicingsAgree == \A s \in Seeds : FillBlocks(s) = FillPerRow(s)

\* a call that returns with the output written, after evaluating on a
\* MatrixSet whose coefficients were written, returns the digest of its own
\* seed and input, whatever the scratch buffers held before
WrittenOutputIsDigest ==
    \A t \in Threads :
        (/\ pc[t] = "return"
         /\ ~Unwritten(output[t])
         /\ mloc[t] # NULL
         /\ mheap[mloc[t]].written)
            => output[t] = Digest(arg[t].seed, arg[t].input)

====
